---- MODULE Spec2Model ----
(***************************************************************************)
(* A model of awscli/customizations/s3/fileinfo.py: the TaskInfo/FileInfo  *)
(* task objects, their transfer methods (upload, download, copy, delete,   *)
(* move, create_multipart_upload), the bucket methods, the option pipeline *)
(* _handle_object_params and the persistence routine save_file.            *)
(*                                                                         *)
(* Strings that the code parses (grants, paths) are sequences of one-      *)
(* character strings; a falsy option value (None or an empty list) is the  *)
(* empty sequence, since the code only tests options for truthiness.       *)
(***************************************************************************)
EXTENDS Integers, Sequences, FiniteSets, TLC

\* ------------------------------------------------------------------ bounds

\* Number of concurrent download workers of the concurrent specification.
NumWorkers == 2
\* Payload bytes are drawn from 0..MaxByte; payloads have length at most 1.
MaxByte == 1

\* ----------------------------------------------------------------- strings

NoErr == "none"

s_read == <<"r", "e", "a", "d">>
s_full == <<"f", "u", "l", "l">>
s_readacl == <<"r", "e", "a", "d", "a", "c", "l">>
s_writeacl == <<"w", "r", "i", "t", "e", "a", "c", "l">>
s_alice == <<"a", "l", "i", "c", "e">>
s_bob == <<"b", "o", "b">>
s_eq == <<"=">>

\* Index of the first occurrence of character c in s, 0 when there is none.
RECURSIVE FirstIndex(_, _, _)
FirstIndex(s, c, i) ==
    IF i > Len(s) THEN 0
    ELSE IF s[i] = c THEN i
    ELSE FirstIndex(s, c, i + 1)

\* Index of the last occurrence of character c in s, 0 when there is none.
RECURSIVE LastIndex(_, _, _)
LastIndex(s, c, i) ==
    IF i < 1 THEN 0
    ELSE IF s[i] = c THEN i
    ELSE LastIndex(s, c, i - 1)

\* str.split(sep, 1): one piece without the separator, else two pieces.
Split1(s, c) ==
    LET p == FirstIndex(s, c, 1)
    IN IF p = 0 THEN <<s>>
       ELSE <<SubSeq(s, 1, p - 1), SubSeq(s, p + 1, Len(s))>>

\* dict[k] = v
Put(f, k, v) == [x \in (DOMAIN f) \cup {k} |-> IF x = k THEN v ELSE f[x]]

\* os.path.dirname: everything before the last "/" ("/" itself for "/x").
Dirname(path) ==
    LET p == LastIndex(path, "/", Len(path))
    IN IF p = 0 THEN <<>>
       ELSE IF p = 1 THEN <<"/">>
       ELSE SubSeq(path, 1, p - 1)

\* ------------------------------------------------ helpers of s3/utils.py

\* find_bucket_key: the path split at its first "/".
find_bucket_key(path) ==
    LET parts == Split1(path, "/")
    IN IF Len(parts) = 1 THEN [bucket |-> parts[1], key |-> <<>>]
       ELSE [bucket |-> parts[1], key |-> parts[2]]

\* guess_content_type: the type of the file name's extension, "" for None.
guess_content_type(filename) ==
    LET p == LastIndex(filename, ".", Len(filename))
        ext == IF p = 0 THEN <<>> ELSE SubSeq(filename, p + 1, Len(filename))
    IN IF ext = <<"j", "s", "o", "n">> THEN "application/json"
       ELSE IF ext = <<"t", "x", "t">> THEN "text/plain"
       ELSE ""

\* The checksum of a payload (an MD5 digest in the code), as a short
\* sequence of digits: a positional hash of the bytes and the length.
RECURSIVE HashFrom(_, _, _)
HashFrom(data, i, h) ==
    IF i > Len(data) THEN h
    ELSE HashFrom(data, i + 1, (h * 3 + data[i] + 1) % 7)

Md5(data) == <<HashFrom(data, 1, 0), Len(data) % 2>>

\* The ETag header as the store sends it: the digest between double quotes
\* (the quote is the byte 34).
QuotedETag(digest) == <<34>> \o digest \o <<34>>

\* retrieve_http_etag: the ETag header without its quotes.
retrieve_http_etag(http) == SubSeq(http.ETag, 2, Len(http.ETag) - 1)

\* check_etag: raises the integrity error when the digests differ.
check_etag(etag, data) == IF etag = Md5(data) THEN NoErr ELSE "MD5Error"

\* ------------------------------------------------------- the options bag

\* A bag with every recognized key and no option set.
EmptyBag ==
    [acl |-> <<>>, grants |-> <<>>, sse |-> FALSE, storage_class |-> <<>>,
     website_redirect |-> <<>>, guess_mime_type |-> FALSE,
     content_type |-> <<>>, cache_control |-> <<>>,
     content_disposition |-> <<>>, content_encoding |-> <<>>,
     content_language |-> <<>>, expires |-> <<>>]

\* The grants lists the tasks are constructed with: none, well-formed
\* entries, an entry without "=", an unknown permission keyword, and a
\* malformed entry after a well-formed one.
GrantLists ==
    { <<>>,
      << s_read \o s_eq \o s_alice >>,
      << s_full \o s_eq \o s_bob, s_readacl \o s_eq \o s_alice,
         s_writeacl \o s_eq \o s_bob \o s_eq \o s_alice >>,
      << s_bob >>,
      << s_bob \o s_eq \o s_alice >>,
      << s_read \o s_eq \o s_alice, s_alice >> }

\* The parameters argument of FileInfo(): <<>> stands for no argument
\* (None or an empty dict, both falsy).
ParameterArgs ==
    { <<>> }
    \cup { [EmptyBag EXCEPT !.grants = g, !.guess_mime_type = m,
                            !.content_type = c]
           : g \in GrantLists, m \in BOOLEAN,
             c \in { <<>>, <<"text/plain", "text/css">> } }
    \cup { [EmptyBag EXCEPT !.acl = <<"public-read">>, !.sse = TRUE,
                            !.storage_class = <<"REDUCED_REDUNDANCY">>,
                            !.website_redirect = <<"/index.html">>,
                            !.cache_control = <<"no-cache">>,
                            !.content_disposition = <<"inline">>,
                            !.content_encoding = <<"gzip">>,
                            !.content_language = <<"en">>,
                            !.expires = <<"2014-03-01">>] }

\* A variant of InitParameters whose default bag holds every key.
InitParametersAllKeys(arg) ==
    IF arg # <<>> THEN arg ELSE EmptyBag

\* FileInfo.__init__: the options bag of a task constructed with `arg`.
InitParameters(arg) ==
    IF arg # <<>> THEN arg ELSE [acl |-> <<>>, sse |-> FALSE]

\* --------------------------------------------- the configuration pipeline

\* A variant of permission_to_param that does not raise: an unknown
\* keyword is taken for "read".
permission_to_param_lenient(permission) ==
    IF permission = s_full THEN "grant_full_control"
    ELSE IF permission = s_readacl THEN "grant_read_acp"
    ELSE IF permission = s_writeacl THEN "grant_write_acp"
    ELSE "grant_read"

\* _permission_to_param; "" stands for the ValueError it raises.
permission_to_param(permission) ==
    IF permission = s_read THEN "grant_read"
    ELSE IF permission = s_full THEN "grant_full_control"
    ELSE IF permission = s_readacl THEN "grant_read_acp"
    ELSE IF permission = s_writeacl THEN "grant_write_acp"
    ELSE ""

\* One step of the pipeline on r = [err, params]: `if parameters[k]:
\* params[pk] = parameters[k][0]`. Reading a key the bag lacks is a KeyError.
ListOption(r, P, k, pk) ==
    IF r.err # NoErr THEN r
    ELSE IF k \notin DOMAIN P THEN [r EXCEPT !.err = "KeyError"]
    ELSE IF P[k] # <<>> THEN [r EXCEPT !.params = Put(r.params, pk, P[k][1])]
    ELSE r

\* The loop over the grants: split each at its first "=", map the
\* permission keyword, set the grantee.
RECURSIVE GrantsLoop(_, _, _)
GrantsLoop(r, grants, i) ==
    IF r.err # NoErr \/ i > Len(grants) THEN r
    ELSE LET pieces == Split1(grants[i], "=")
         IN IF Len(pieces) # 2 THEN [r EXCEPT !.err = "ValueError"]
            ELSE IF permission_to_param(pieces[1]) = ""
                 THEN [r EXCEPT !.err = "ValueError"]
            ELSE GrantsLoop(
                     [r EXCEPT !.params =
                         Put(r.params, permission_to_param(pieces[1]), pieces[2])],
                     grants, i + 1)

GrantsOption(r, P) ==
    IF r.err # NoErr THEN r
    ELSE IF "grants" \notin DOMAIN P THEN [r EXCEPT !.err = "KeyError"]
    ELSE IF P.grants # <<>> THEN GrantsLoop(r, P.grants, 1)
    ELSE r

SseOption(r, P) ==
    IF r.err # NoErr THEN r
    ELSE IF "sse" \notin DOMAIN P THEN [r EXCEPT !.err = "KeyError"]
    ELSE IF P.sse THEN [r EXCEPT !.params = Put(r.params, "server_side_encryption", "AES256")]
    ELSE r

\* _inject_content_type: set the content type when one can be guessed.
inject_content_type(params, filename) ==
    IF guess_content_type(filename) # ""
    THEN Put(params, "content_type", guess_content_type(filename))
    ELSE params

GuessOption(r, P, src) ==
    IF r.err # NoErr THEN r
    ELSE IF "guess_mime_type" \notin DOMAIN P THEN [r EXCEPT !.err = "KeyError"]
    ELSE IF P.guess_mime_type
         THEN [r EXCEPT !.params = inject_content_type(r.params, src)]
    ELSE r

\* A variant of handle_object_params that guesses the content type after
\* the explicit content_type instead of before it.
handle_object_params_guess_last(P, src, params) ==
    LET r0 == [err |-> NoErr, params |-> params]
        r1 == ListOption(r0, P, "acl", "acl")
        r2 == GrantsOption(r1, P)
        r3 == SseOption(r2, P)
        r4 == ListOption(r3, P, "storage_class", "storage_class")
        r5 == ListOption(r4, P, "website_redirect", "website_redirect_location")
        r6 == ListOption(r5, P, "content_type", "content_type")
        r7 == GuessOption(r6, P, src)
        r8 == ListOption(r7, P, "cache_control", "cache_control")
        r9 == ListOption(r8, P, "content_disposition", "content_disposition")
        r10 == ListOption(r9, P, "content_encoding", "content_encoding")
        r11 == ListOption(r10, P, "content_language", "content_language")
    IN ListOption(r11, P, "expires", "expires")

\* _handle_object_params: the options in the order of the code.
handle_object_params(P, src, params) ==
    LET r0 == [err |-> NoErr, params |-> params]
        r1 == ListOption(r0, P, "acl", "acl")
        r2 == GrantsOption(r1, P)
        r3 == SseOption(r2, P)
        r4 == ListOption(r3, P, "storage_class", "storage_class")
        r5 == ListOption(r4, P, "website_redirect", "website_redirect_location")
        r6 == GuessOption(r5, P, src)
        r7 == ListOption(r6, P, "content_type", "content_type")
        r8 == ListOption(r7, P, "cache_control", "cache_control")
        r9 == ListOption(r8, P, "content_disposition", "content_disposition")
        r10 == ListOption(r9, P, "content_encoding", "content_encoding")
        r11 == ListOption(r10, P, "content_language", "content_language")
    IN ListOption(r11, P, "expires", "expires")

\* ------------------------------------------------------------------ state

VARIABLES
    task,     \* worker -> the FileInfo's src, dest, kinds, last_update, parameters
    bind,     \* worker -> session, region and whether service/endpoint are set
    pc,       \* worker -> where the worker is in the method it runs
    op,       \* worker -> the method called on the task ("" before the call)
    err,      \* worker -> the exception that ended the method (NoErr if none)
    loc,      \* worker -> the locals of the running method
    calls,    \* worker -> the remote calls and file-system effects so far
    objects,  \* the object store: path -> payload
    files,    \* the local files: path -> [data, atime, mtime] (0: not set by utime)
    dirs      \* the local directories that exist

vars == <<task, bind, pc, op, err, loc, calls, objects, files, dirs>>

Kinds == {"local", "s3", "None"}
Regions == {"", "us-east-1", "us-west-2"}
\* The (session, region) arguments a task is constructed with.
Bindings ==
    { <<FALSE, "">>, <<FALSE, "us-east-1">>, <<TRUE, "">>,
      <<TRUE, "us-east-1">>, <<TRUE, "us-west-2">> }
Payloads == { <<>> } \cup { <<b>> : b \in 0..MaxByte }
\* last_update as <<seconds, milliseconds>>
LastUpdates == { <<7, 0>>, <<8, 999>> }
Srcs == { <<>>, <<"b", "/", "a", ".", "j", "s", "o", "n">>,
          <<"b", "/", "b", "l", "o", "b">> }
Digit == <<"1", "2", "3", "4">>
Root == <<"/">>

\* The destination of worker w's task: a file of its own under /d, or a key.
DestOf(w, dest_type) ==
    IF dest_type = "local" THEN <<"/", "d", "/", "f", Digit[w]>>
    ELSE <<"b", "/", "k", Digit[w]>>

Methods ==
    {"list_objects", "make_bucket", "remove_bucket", "upload", "download",
     "copy", "delete", "move", "create_multipart_upload"}

Drop(f, k) == [x \in (DOMAIN f) \ {k} |-> f[x]]

NoLocals ==
    [body |-> <<>>, params |-> <<>>, http |-> [ETag |-> <<>>],
     resp |-> [Body |-> <<>>, ETag |-> <<>>], data |-> <<>>,
     exists |-> FALSE, mkdirs |-> "", ret |-> ""]

\* TaskInfo.__init__: service and endpoint are set only when both session
\* and region are given.
TaskInfoInit(session, region) ==
    [session |-> session, region |-> region,
     service |-> session /\ region # ""]

\* FileInfo.__init__; no_parameters records that the parameters argument
\* was missing (it is not an attribute of the object).
FileInfoInit(w, src, src_type, dest_type, last_update, arg) ==
    [src |-> src, src_type |-> src_type, dest |-> DestOf(w, dest_type),
     dest_type |-> dest_type, last_update |-> last_update,
     parameters |-> InitParameters(arg), no_parameters |-> (arg = <<>>)]

\* One task, any arguments; the source exists where its kind says (a
\* source whose kind is not "s3" is a local file).
Init ==
    \E src \in Srcs, st \in Kinds, dt \in Kinds, lu \in LastUpdates,
       arg \in ParameterArgs, b \in Bindings, p \in Payloads, d \in BOOLEAN :
        /\ task = [w \in {1} |-> FileInfoInit(w, src, st, dt, lu, arg)]
        /\ bind = [w \in {1} |-> TaskInfoInit(b[1], b[2])]
        /\ pc = [w \in {1} |-> "idle"]
        /\ op = [w \in {1} |-> ""]
        /\ err = [w \in {1} |-> NoErr]
        /\ loc = [w \in {1} |-> NoLocals]
        /\ calls = [w \in {1} |-> <<>>]
        /\ objects = IF st = "s3" /\ src # <<>> THEN Put(<<>>, src, p) ELSE <<>>
        /\ files = IF st # "s3" /\ src # <<>>
                   THEN Put(<<>>, src, [data |-> p, atime |-> 0, mtime |-> 0]) ELSE <<>>
        /\ dirs = IF d THEN {Root, <<"/", "d">>} ELSE {Root}

\* -------------------------------------------------------------- plumbing

Goto(w, l) == pc' = [pc EXCEPT ![w] = l]

\* An exception leaves the method: nothing in this file catches it.
Fail(w, e) ==
    /\ pc' = [pc EXCEPT ![w] = "failed"]
    /\ err' = [err EXCEPT ![w] = e]

\* A method returns: inside move() the transfer step is followed by delete().
Return(w) ==
    Goto(w, IF op[w] = "move" /\ pc[w] # "delete" THEN "delete" ELSE "done")

Log(w, c, r) ==
    calls' = [calls EXCEPT ![w] = Append(@, [call |-> c, result |-> r])]

\* set_session
SetSession(w) ==
    /\ pc[w] = "idle"
    /\ ~bind[w].service
    /\ \E region \in Regions \ {""} :
         bind' = [bind EXCEPT ![w] =
                    [session |-> TRUE, region |-> region, service |-> TRUE]]
    /\ UNCHANGED <<task, pc, op, err, loc, calls, objects, files, dirs>>

\* The caller invokes method m on the task.
Call(w, m) ==
    /\ pc[w] = "idle"
    /\ op' = [op EXCEPT ![w] = m]
    /\ Goto(w, m)
    /\ UNCHANGED <<task, bind, err, loc, calls, objects, files, dirs>>

\* ------------------------------------------------------- the remote store

\* operate(service, name, params) of s3/utils.py: with no service bound it
\* raises before any request is sent; otherwise the request is sent and
\* either succeeds or comes back as an error, which operate raises.
operate_outcomes(w) ==
    IF ~bind[w].service THEN {"AttributeError"} ELSE {"ok", "error"}

\* The request parameters every object method starts from.
BaseParams(path) ==
    [endpoint |-> "endpoint", bucket |-> find_bucket_key(path).bucket,
     key |-> find_bucket_key(path).key]

\* ------------------------------------------------------ bucket operations

\* list_objects: ListBuckets for an empty bucket name, ListObjects otherwise.
ListObjects(w) ==
    /\ pc[w] = "list_objects"
    /\ \E out \in operate_outcomes(w) :
         IF out = "AttributeError"
         THEN Fail(w, out) /\ UNCHANGED calls
         ELSE /\ Log(w, IF find_bucket_key(task[w].src).bucket = <<>>
                        THEN "ListBuckets" ELSE "ListObjects", out)
              /\ IF out = "ok" THEN Return(w) /\ UNCHANGED err
                 ELSE Fail(w, "ServiceError")
    /\ UNCHANGED <<task, bind, op, loc, objects, files, dirs>>

\* make_bucket: a location constraint unless the region is us-east-1.
MakeBucket(w) ==
    /\ pc[w] = "make_bucket"
    /\ loc' = [loc EXCEPT ![w].params =
                 LET params == [endpoint |-> "endpoint",
                                bucket |-> find_bucket_key(task[w].src).bucket]
                 IN IF bind[w].region # "us-east-1"
                    THEN Put(params, "create_bucket_configuration", bind[w].region)
                    ELSE params]
    /\ \E out \in operate_outcomes(w) :
         IF out = "AttributeError"
         THEN Fail(w, out) /\ UNCHANGED calls
         ELSE /\ Log(w, "CreateBucket", out)
              /\ IF out = "ok" THEN Return(w) /\ UNCHANGED err
                 ELSE Fail(w, "ServiceError")
    /\ UNCHANGED <<task, bind, op, objects, files, dirs>>

\* remove_bucket
RemoveBucket(w) ==
    /\ pc[w] = "remove_bucket"
    /\ \E out \in operate_outcomes(w) :
         IF out = "AttributeError"
         THEN Fail(w, out) /\ UNCHANGED calls
         ELSE /\ Log(w, "DeleteBucket", out)
              /\ IF out = "ok" THEN Return(w) /\ UNCHANGED err
                 ELSE Fail(w, "ServiceError")
    /\ UNCHANGED <<task, bind, op, loc, objects, files, dirs>>

\* ------------------------------------------------------------------ upload

\* upload, first statement: read_file(self.src).
UploadRead(w) ==
    /\ pc[w] = "upload"
    /\ IF task[w].src \in DOMAIN files
       THEN /\ loc' = [loc EXCEPT ![w].body = files[task[w].src].data]
            /\ Goto(w, "upload_params")
            /\ UNCHANGED err
       ELSE Fail(w, "IOError") /\ UNCHANGED loc
    /\ UNCHANGED <<task, bind, op, calls, objects, files, dirs>>

\* upload: the request parameters, the body only when it is not empty, then
\* the option pipeline.
UploadParams(w) ==
    /\ pc[w] = "upload_params"
    /\ LET params == IF loc[w].body # <<>>
                     THEN Put(BaseParams(task[w].dest), "body", loc[w].body)
                     ELSE BaseParams(task[w].dest)
           r == handle_object_params(task[w].parameters, task[w].src, params)
       IN IF r.err # NoErr
          THEN Fail(w, r.err) /\ UNCHANGED loc
          ELSE /\ loc' = [loc EXCEPT ![w].params = r.params]
               /\ Goto(w, "upload_put")
               /\ UNCHANGED err
    /\ UNCHANGED <<task, bind, op, calls, objects, files, dirs>>

\* upload: operate(self.service, 'PutObject', params). The store keeps the
\* bytes it received (which a faulty transport may have changed) and
\* answers with their digest.
UploadPut(w) ==
    /\ pc[w] = "upload_put"
    /\ \E out \in operate_outcomes(w) :
         IF out = "AttributeError"
         THEN Fail(w, out) /\ UNCHANGED <<calls, loc, objects>>
         ELSE /\ Log(w, "PutObject", out)
              /\ IF out = "ok"
                 THEN \E received \in Payloads :
                        /\ objects' = Put(objects, task[w].dest, received)
                        /\ loc' = [loc EXCEPT ![w].http =
                                     [ETag |-> QuotedETag(Md5(received))]]
                        /\ Goto(w, "upload_check")
                        /\ UNCHANGED err
                 ELSE Fail(w, "ServiceError") /\ UNCHANGED <<loc, objects>>
    /\ UNCHANGED <<task, bind, op, files, dirs>>

\* A variant of UploadCheck that does not compare the checksums.
UploadCheckSkipped(w) ==
    /\ pc[w] = "upload_check"
    /\ Return(w)
    /\ UNCHANGED <<task, bind, op, err, loc, calls, objects, files, dirs>>

\* upload: etag = retrieve_http_etag(http); check_etag(etag, body).
UploadCheck(w) ==
    /\ pc[w] = "upload_check"
    /\ LET e == check_etag(retrieve_http_etag(loc[w].http), loc[w].body)
       IN IF e = NoErr THEN Return(w) /\ UNCHANGED err ELSE Fail(w, e)
    /\ UNCHANGED <<task, bind, op, loc, calls, objects, files, dirs>>

\* -------------------------------------------------------------------- copy

\* copy: the request parameters and the option pipeline.
CopyParams(w) ==
    /\ pc[w] = "copy"
    /\ LET params == Put(BaseParams(task[w].dest), "copy_source", task[w].src)
           r == handle_object_params(task[w].parameters, task[w].src, params)
       IN IF r.err # NoErr
          THEN Fail(w, r.err) /\ UNCHANGED loc
          ELSE /\ loc' = [loc EXCEPT ![w].params = r.params]
               /\ Goto(w, "copy_call")
               /\ UNCHANGED err
    /\ UNCHANGED <<task, bind, op, calls, objects, files, dirs>>

\* copy: operate(self.service, 'CopyObject', params); the store fails the
\* request when the source object does not exist.
CopyCall(w) ==
    /\ pc[w] = "copy_call"
    /\ \E out \in operate_outcomes(w) :
         IF out = "AttributeError"
         THEN Fail(w, out) /\ UNCHANGED <<calls, objects>>
         ELSE IF out = "ok" /\ task[w].src \in DOMAIN objects
         THEN /\ Log(w, "CopyObject", "ok")
              /\ objects' = Put(objects, task[w].dest, objects[task[w].src])
              /\ Return(w)
              /\ UNCHANGED err
         ELSE /\ Log(w, "CopyObject", "error")
              /\ Fail(w, "ServiceError")
              /\ UNCHANGED objects
    /\ UNCHANGED <<task, bind, op, loc, files, dirs>>

\* ----------------------------------------------------------------- download

\* download: operate(self.service, 'GetObject', params). The body that
\* arrives may differ from the stored object; the ETag is the stored one's.
DownloadGet(w) ==
    /\ pc[w] = "download"
    /\ \E out \in operate_outcomes(w) :
         IF out = "AttributeError"
         THEN Fail(w, out) /\ UNCHANGED <<calls, loc>>
         ELSE IF out = "ok" /\ task[w].src \in DOMAIN objects
         THEN /\ Log(w, "GetObject", "ok")
              /\ \E body \in Payloads :
                   loc' = [loc EXCEPT ![w].resp =
                             [Body |-> body,
                              ETag |-> QuotedETag(Md5(objects[task[w].src]))]]
              /\ Goto(w, "save_file")
              /\ UNCHANGED err
         ELSE /\ Log(w, "GetObject", "error")
              /\ Fail(w, "ServiceError")
              /\ UNCHANGED loc
    /\ UNCHANGED <<task, bind, op, objects, files, dirs>>

\* A variant of SaveFileCheck that goes on whatever check_etag finds.
SaveFileCheckIgnored(w) ==
    /\ pc[w] = "save_file"
    /\ loc' = [loc EXCEPT ![w].data = loc[w].resp.Body]
    /\ Goto(w, "sf_exists")
    /\ UNCHANGED <<task, bind, op, err, calls, objects, files, dirs>>

\* save_file: read the body, strip the ETag's quotes, check_etag.
SaveFileCheck(w) ==
    /\ pc[w] = "save_file"
    /\ LET data == loc[w].resp.Body
           etag == SubSeq(loc[w].resp.ETag, 2, Len(loc[w].resp.ETag) - 1)
           e == check_etag(etag, data)
       IN IF e = NoErr
          THEN /\ loc' = [loc EXCEPT ![w].data = data]
               /\ Goto(w, "sf_exists")
               /\ UNCHANGED err
          ELSE Fail(w, e) /\ UNCHANGED loc
    /\ UNCHANGED <<task, bind, op, calls, objects, files, dirs>>

\* save_file: os.path.exists(d)
SaveFileExists(w) ==
    /\ pc[w] = "sf_exists"
    /\ loc' = [loc EXCEPT ![w].exists = Dirname(task[w].dest) \in dirs]
    /\ Goto(w, IF Dirname(task[w].dest) \in dirs THEN "sf_write" ELSE "sf_makedirs")
    /\ UNCHANGED <<task, bind, op, err, calls, objects, files, dirs>>

\* A variant of SaveFileMakedirs without the try/except: what makedirs
\* raises ends the task.
SaveFileMakedirsUncaught(w) ==
    /\ pc[w] = "sf_makedirs"
    /\ \E out \in (IF Dirname(task[w].dest) \in dirs
                   THEN {"EEXIST"} ELSE {"ok", "OSError"}) :
         /\ loc' = [loc EXCEPT ![w].mkdirs = out]
         /\ Log(w, "makedirs", out)
         /\ dirs' = IF out = "ok" THEN dirs \cup {Dirname(task[w].dest)} ELSE dirs
         /\ IF out = "ok" THEN Goto(w, "sf_write") /\ UNCHANGED err
            ELSE Fail(w, "OSError")
    /\ UNCHANGED <<task, bind, op, objects, files>>

\* save_file: os.makedirs(d) inside try/except Exception: pass. It raises
\* when the directory exists by now (EEXIST) and may fail for any other
\* reason (OSError); whatever it raises is passed over.
SaveFileMakedirs(w) ==
    /\ pc[w] = "sf_makedirs"
    /\ \E out \in (IF Dirname(task[w].dest) \in dirs
                   THEN {"EEXIST"} ELSE {"ok", "OSError"}) :
         /\ loc' = [loc EXCEPT ![w].mkdirs = out]
         /\ Log(w, "makedirs", out)
         /\ dirs' = IF out = "ok" THEN dirs \cup {Dirname(task[w].dest)} ELSE dirs
    /\ Goto(w, "sf_write")
    /\ UNCHANGED <<task, bind, op, err, objects, files>>

\* save_file: open(filename, 'wb') and write. Opening fails when the
\* directory is missing; a failed write leaves a truncated file.
SaveFileWrite(w) ==
    /\ pc[w] = "sf_write"
    /\ \E out \in (IF Dirname(task[w].dest) \in dirs
                   THEN {"ok", "IOError"} ELSE {"ENOENT"}) :
         /\ Log(w, "write", out)
         /\ IF out = "ok"
            THEN /\ files' = Put(files, task[w].dest,
                                 [data |-> loc[w].data, atime |-> 0, mtime |-> 0])
                 /\ Goto(w, "sf_utime")
                 /\ UNCHANGED err
            ELSE /\ files' = IF out = "IOError"
                             THEN Put(files, task[w].dest,
                                      [data |-> <<>>, atime |-> 0, mtime |-> 0])
                             ELSE files
                 /\ Fail(w, "IOError")
    /\ UNCHANGED <<task, bind, op, loc, objects, dirs>>

\* save_file: timetuple() drops the sub-second part, mktime and int give
\* whole seconds; both times of the file are set to them.
SaveFileUtime(w) ==
    /\ pc[w] = "sf_utime"
    /\ LET mod_timestamp == task[w].last_update[1]
       IN files' = [files EXCEPT ![task[w].dest].atime = mod_timestamp,
                                 ![task[w].dest].mtime = mod_timestamp]
    /\ Log(w, "utime", "ok")
    /\ Return(w)
    /\ UNCHANGED <<task, bind, op, err, loc, objects, dirs>>

\* ------------------------------------------------------------------ delete

\* A variant of Delete that looks at the kind of the destination.
DeleteByDestType(w) ==
    /\ pc[w] = "delete"
    /\ IF task[w].dest_type = "s3"
       THEN /\ \E out \in operate_outcomes(w) :
                 IF out = "AttributeError"
                 THEN Fail(w, out) /\ UNCHANGED <<calls, objects>>
                 ELSE /\ Log(w, "DeleteObject", out)
                      /\ IF out = "ok"
                         THEN /\ objects' = Drop(objects, task[w].src)
                              /\ Return(w)
                              /\ UNCHANGED err
                         ELSE Fail(w, "ServiceError") /\ UNCHANGED objects
            /\ UNCHANGED files
       ELSE /\ IF task[w].src \in DOMAIN files
               THEN /\ files' = Drop(files, task[w].src)
                    /\ Log(w, "os.remove", "ok")
                    /\ Return(w)
                    /\ UNCHANGED err
               ELSE /\ Log(w, "os.remove", "ENOENT")
                    /\ Fail(w, "OSError")
                    /\ UNCHANGED files
            /\ UNCHANGED objects
    /\ UNCHANGED <<task, bind, op, loc, dirs>>

\* A variant of Delete with its test inverted.
DeleteInverted(w) ==
    /\ pc[w] = "delete"
    /\ IF task[w].src_type # "s3"
       THEN /\ \E out \in operate_outcomes(w) :
                 IF out = "AttributeError"
                 THEN Fail(w, out) /\ UNCHANGED <<calls, objects>>
                 ELSE /\ Log(w, "DeleteObject", out)
                      /\ IF out = "ok"
                         THEN /\ objects' = Drop(objects, task[w].src)
                              /\ Return(w)
                              /\ UNCHANGED err
                         ELSE Fail(w, "ServiceError") /\ UNCHANGED objects
            /\ UNCHANGED files
       ELSE /\ IF task[w].src \in DOMAIN files
               THEN /\ files' = Drop(files, task[w].src)
                    /\ Log(w, "os.remove", "ok")
                    /\ Return(w)
                    /\ UNCHANGED err
               ELSE /\ Log(w, "os.remove", "ENOENT")
                    /\ Fail(w, "OSError")
                    /\ UNCHANGED files
            /\ UNCHANGED objects
    /\ UNCHANGED <<task, bind, op, loc, dirs>>

\* delete: DeleteObject for an "s3" source, os.remove(self.src) otherwise.
Delete(w) ==
    /\ pc[w] = "delete"
    /\ IF task[w].src_type = "s3"
       THEN /\ \E out \in operate_outcomes(w) :
                 IF out = "AttributeError"
                 THEN Fail(w, out) /\ UNCHANGED <<calls, objects>>
                 ELSE /\ Log(w, "DeleteObject", out)
                      /\ IF out = "ok"
                         THEN /\ objects' = Drop(objects, task[w].src)
                              /\ Return(w)
                              /\ UNCHANGED err
                         ELSE Fail(w, "ServiceError") /\ UNCHANGED objects
            /\ UNCHANGED files
       ELSE /\ IF task[w].src \in DOMAIN files
               THEN /\ files' = Drop(files, task[w].src)
                    /\ Log(w, "os.remove", "ok")
                    /\ Return(w)
                    /\ UNCHANGED err
               ELSE /\ Log(w, "os.remove", "ENOENT")
                    /\ Fail(w, "OSError")
                    /\ UNCHANGED files
            /\ UNCHANGED objects
    /\ UNCHANGED <<task, bind, op, loc, dirs>>

\* -------------------------------------------------------------------- move

\* A variant of Move whose last branch does not raise: an invalid pair of
\* kinds falls through to delete().
MoveFallsThrough(w) ==
    /\ pc[w] = "move"
    /\ LET src == task[w].src_type
           dest == task[w].dest_type
       IN IF src = "local" /\ dest = "s3" THEN Goto(w, "upload")
          ELSE IF src = "s3" /\ dest = "s3" THEN Goto(w, "copy")
          ELSE IF src = "s3" /\ dest = "local" THEN Goto(w, "download")
          ELSE Goto(w, "delete")
    /\ UNCHANGED <<task, bind, op, err, loc, calls, objects, files, dirs>>

\* move: the transfer step chosen by (src_type, dest_type); any other pair
\* raises Exception("Invalid path arguments for mv").
Move(w) ==
    /\ pc[w] = "move"
    /\ LET src == task[w].src_type
           dest == task[w].dest_type
       IN IF src = "local" /\ dest = "s3" THEN Goto(w, "upload") /\ UNCHANGED err
          ELSE IF src = "s3" /\ dest = "s3" THEN Goto(w, "copy") /\ UNCHANGED err
          ELSE IF src = "s3" /\ dest = "local" THEN Goto(w, "download") /\ UNCHANGED err
          ELSE Fail(w, "Exception")
    /\ UNCHANGED <<task, bind, op, loc, calls, objects, files, dirs>>

\* ------------------------------------------------- create_multipart_upload

\* create_multipart_upload: the request parameters and the option pipeline.
CreateMultipartParams(w) ==
    /\ pc[w] = "create_multipart_upload"
    /\ LET r == handle_object_params(task[w].parameters, task[w].src,
                                     BaseParams(task[w].dest))
       IN IF r.err # NoErr
          THEN Fail(w, r.err) /\ UNCHANGED loc
          ELSE /\ loc' = [loc EXCEPT ![w].params = r.params]
               /\ Goto(w, "cmu_call")
               /\ UNCHANGED err
    /\ UNCHANGED <<task, bind, op, calls, objects, files, dirs>>

\* create_multipart_upload: the call; the UploadId of the answer is returned.
CreateMultipartCall(w) ==
    /\ pc[w] = "cmu_call"
    /\ \E out \in operate_outcomes(w) :
         IF out = "AttributeError"
         THEN Fail(w, out) /\ UNCHANGED <<calls, loc>>
         ELSE /\ Log(w, "CreateMultipartUpload", out)
              /\ IF out = "ok"
                 THEN /\ loc' = [loc EXCEPT ![w].ret = "UploadId"]
                      /\ Return(w)
                      /\ UNCHANGED err
                 ELSE Fail(w, "ServiceError") /\ UNCHANGED loc
    /\ UNCHANGED <<task, bind, op, objects, files, dirs>>

\* --------------------------------------------------------- specifications

\* The steps of download(): the request, then save_file.
DownloadStep(w) ==
    \/ DownloadGet(w)
    \/ SaveFileCheck(w)
    \/ SaveFileExists(w)
    \/ SaveFileMakedirs(w)
    \/ SaveFileWrite(w)
    \/ SaveFileUtime(w)

Next ==
    \E w \in {1} :
        \/ SetSession(w)
        \/ \E m \in Methods : Call(w, m)
        \/ ListObjects(w)
        \/ MakeBucket(w)
        \/ RemoveBucket(w)
        \/ UploadRead(w)
        \/ UploadParams(w)
        \/ UploadPut(w)
        \/ UploadCheck(w)
        \/ CopyParams(w)
        \/ CopyCall(w)
        \/ DownloadStep(w)
        \/ Delete(w)
        \/ Move(w)
        \/ CreateMultipartParams(w)
        \/ CreateMultipartCall(w)

\* One task, one method call, run to its end.
Spec == Init /\ [][Next]_vars

\* NumWorkers workers, each with a bound download task of its own: one
\* source object, a destination file per worker, all under the same parent
\* directory, which is missing at the start.
InitWorkers ==
    \E lu \in LastUpdates, p \in Payloads :
        /\ task = [w \in 1..NumWorkers |->
                     FileInfoInit(w, <<"b", "/", "b", "l", "o", "b">>, "s3",
                                  "local", lu, EmptyBag)]
        /\ bind = [w \in 1..NumWorkers |-> TaskInfoInit(TRUE, "us-east-1")]
        /\ pc = [w \in 1..NumWorkers |-> "idle"]
        /\ op = [w \in 1..NumWorkers |-> ""]
        /\ err = [w \in 1..NumWorkers |-> NoErr]
        /\ loc = [w \in 1..NumWorkers |-> NoLocals]
        /\ calls = [w \in 1..NumWorkers |-> <<>>]
        /\ objects = Put(<<>>, <<"b", "/", "b", "l", "o", "b">>, p)
        /\ files = <<>>
        /\ dirs = {Root}

NextWorkers ==
    \E w \in 1..NumWorkers :
        \/ Call(w, "download")
        \/ DownloadStep(w)

\* Concurrent workers, each running download() on its own task.
SpecWorkers == InitWorkers /\ [][NextWorkers]_vars

\* ============================================================ properties

AllWorkers == DOMAIN pc

RemoteNames ==
    {"ListBuckets", "ListObjects", "CreateBucket", "DeleteBucket", "PutObject",
     "CopyObject", "GetObject", "DeleteObject", "CreateMultipartUpload"}
DeleteNames == {"DeleteObject", "os.remove"}

IsRemote(c) == c.call \in RemoteNames
IsDelete(c) == c.call \in DeleteNames
IsRemoteOrDelete(c) == IsRemote(c) \/ IsDelete(c)

Logged(w, c, r) == \E i \in DOMAIN calls[w] : calls[w][i] = [call |-> c, result |-> r]
Attempted(w, names) == \E i \in DOMAIN calls[w] : calls[w][i].call \in names

\* The source of w's task is where its kind says.
SrcPresent(w) ==
    IF task[w].src_type = "s3" THEN task[w].src \in DOMAIN objects
    ELSE task[w].src \in DOMAIN files

KindsOf(w) == <<task[w].src_type, task[w].dest_type>>
MoveKinds == { <<"local", "s3">>, <<"s3", "s3">>, <<"s3", "local">> }

\* The transfer step that move() dispatched has returned without error.
TransferReturned(w) ==
    IF KindsOf(w) = <<"local", "s3">>
    THEN Logged(w, "PutObject", "ok")
         /\ retrieve_http_etag(loc[w].http) = Md5(loc[w].body)
    ELSE IF KindsOf(w) = <<"s3", "s3">>
    THEN Logged(w, "CopyObject", "ok")
    ELSE /\ KindsOf(w) = <<"s3", "local">>
         /\ Logged(w, "GetObject", "ok")
         /\ Logged(w, "write", "ok")
         /\ Logged(w, "utime", "ok")

\* C1: in move(), delete() of the source is reached only after the
\* dispatched transfer step has returned without error; when the transfer
\* step fails (no deletion was attempted) the source is still present; and
\* move() from local to local fails with no remote call and no deletion.
C1_MoveDeletesAfterTransfer ==
    \A w \in AllWorkers :
        op[w] = "move" =>
            /\ (pc[w] \in {"delete", "done"} \/ Attempted(w, DeleteNames))
                   => TransferReturned(w)
            /\ (pc[w] = "failed" /\ ~Attempted(w, DeleteNames) /\ task[w].src # <<>>)
                   => SrcPresent(w)
            /\ (KindsOf(w) = <<"local", "local">> /\ pc[w] # "move")
                   => /\ pc[w] = "failed"
                      /\ err[w] = "Exception"
                      /\ calls[w] = <<>>
                      /\ (task[w].src # <<>> => SrcPresent(w))

\* A move whose upload came back with another checksum: failed, source kept.
C1_Witness ==
    \E w \in AllWorkers :
        /\ op[w] = "move" /\ pc[w] = "failed" /\ err[w] = "MD5Error"
        /\ KindsOf(w) = <<"local", "s3">>
        /\ Logged(w, "PutObject", "ok")
        /\ SrcPresent(w)

\* C2: a successful move() has made exactly one transfer call chosen by
\* (src_type, dest_type) and then exactly one deletion of the source:
\* PutObject then os.remove, CopyObject then DeleteObject, GetObject (with
\* the local file written) then DeleteObject; any other pair of kinds,
\* unset ones included, raises the invalid-path error.
C2_MoveDispatch ==
    \A w \in AllWorkers :
        op[w] = "move" =>
            /\ pc[w] = "done" =>
                 LET eff == SelectSeq(calls[w], IsRemoteOrDelete)
                     ok(c) == [call |-> c, result |-> "ok"]
                 IN CASE KindsOf(w) = <<"local", "s3">> ->
                            /\ eff = <<ok("PutObject"), ok("os.remove")>>
                            /\ task[w].src \notin DOMAIN files
                            /\ task[w].dest \in DOMAIN objects
                      [] KindsOf(w) = <<"s3", "s3">> ->
                            /\ eff = <<ok("CopyObject"), ok("DeleteObject")>>
                            /\ task[w].src \notin DOMAIN objects
                            /\ task[w].dest \in DOMAIN objects
                      [] KindsOf(w) = <<"s3", "local">> ->
                            /\ eff = <<ok("GetObject"), ok("DeleteObject")>>
                            /\ Logged(w, "write", "ok")
                            /\ calls[w][Len(calls[w])] = ok("DeleteObject")
                            /\ task[w].src \notin DOMAIN objects
                            /\ task[w].dest \in DOMAIN files
                            /\ files[task[w].dest].data = loc[w].data
                      [] OTHER -> FALSE
            /\ (KindsOf(w) \notin MoveKinds /\ pc[w] # "move")
                   => pc[w] = "failed" /\ err[w] = "Exception"

\* A finished move from the store to a local file.
C2_Witness ==
    \E w \in AllWorkers :
        /\ op[w] = "move" /\ pc[w] = "done"
        /\ KindsOf(w) = <<"s3", "local">>
        /\ task[w].dest \in DOMAIN files
        /\ task[w].src \notin DOMAIN objects

\* upload() has returned without error (as a call of its own or as the
\* transfer step of move()).
UploadReturned(w) ==
    \/ op[w] = "upload" /\ pc[w] = "done"
    \/ op[w] = "move" /\ KindsOf(w) = <<"local", "s3">> /\ pc[w] \in {"delete", "done"}
    \/ op[w] = "move" /\ KindsOf(w) = <<"local", "s3">> /\ Attempted(w, DeleteNames)

\* upload() is over, one way or the other.
UploadOver(w) ==
    /\ op[w] \in {"upload", "move"}
    /\ pc[w] \in {"done", "failed", "delete"}

\* C3: upload() returns successfully only if the checksum that came back
\* from PutObject equals the checksum of the bytes read from the source;
\* when the call succeeded with another checksum, upload() ends in the
\* integrity failure.
C3_UploadChecksum ==
    \A w \in AllWorkers :
        /\ UploadReturned(w)
               => /\ Logged(w, "PutObject", "ok")
                  /\ retrieve_http_etag(loc[w].http) = Md5(loc[w].body)
        /\ (UploadOver(w) /\ Logged(w, "PutObject", "ok")
              /\ retrieve_http_etag(loc[w].http) # Md5(loc[w].body))
               => pc[w] = "failed" /\ err[w] = "MD5Error"

\* PutObject succeeded, the store answered with the checksum of other
\* bytes, and upload() failed with the integrity error.
C3_Witness ==
    \E w \in AllWorkers :
        /\ op[w] = "upload" /\ pc[w] = "failed" /\ err[w] = "MD5Error"
        /\ Logged(w, "PutObject", "ok")
        /\ loc[w].body # <<>>
        /\ task[w].dest \in DOMAIN objects
        /\ objects[task[w].dest] # loc[w].body

\* The digest the store reported for the answer w's download received.
ReportedDigest(w) == SubSeq(loc[w].resp.ETag, 2, Len(loc[w].resp.ETag) - 1)

\* w's download has received its answer and checked it.
DownloadChecked(w) ==
    /\ Logged(w, "GetObject", "ok")
    /\ pc[w] # "save_file"

PersistNames == {"makedirs", "write", "utime"}

\* C4: download() fails whenever the checksum of the payload differs from
\* the one the store reported, with nothing persisted; the persistence
\* steps come in the order check, directory, write, set times; and both
\* times of the destination are set, to the whole seconds of last_update,
\* only after the check has passed and the write has completed.
C4_DownloadOrder ==
    \A w \in AllWorkers :
        /\ (DownloadChecked(w) /\ ReportedDigest(w) # Md5(loc[w].resp.Body))
               => /\ pc[w] = "failed" /\ err[w] = "MD5Error"
                  /\ ~Attempted(w, PersistNames)
                  /\ task[w].dest \notin DOMAIN files
        /\ \A i \in DOMAIN calls[w] :
               /\ calls[w][i].call \in PersistNames
                      => /\ i > 1
                         /\ ReportedDigest(w) = Md5(loc[w].resp.Body)
               /\ calls[w][i].call = "makedirs"
                      => calls[w][i - 1] = [call |-> "GetObject", result |-> "ok"]
               /\ calls[w][i].call = "write"
                      => calls[w][i - 1].call \in {"GetObject", "makedirs"}
               /\ calls[w][i].call = "utime"
                      => calls[w][i - 1] = [call |-> "write", result |-> "ok"]
        /\ (task[w].dest \in DOMAIN files /\ task[w].dest_type = "local")
               => LET f == files[task[w].dest]
                  IN /\ (f.atime # 0 \/ f.mtime # 0) => Logged(w, "utime", "ok")
                     /\ Logged(w, "utime", "ok")
                            => /\ f.atime = task[w].last_update[1]
                               /\ f.mtime = task[w].last_update[1]
                               /\ f.data = loc[w].resp.Body
                               /\ Md5(f.data) = ReportedDigest(w)

\* A finished download of a non-empty object whose last_update has a
\* sub-second part: the file carries the whole seconds.
C4_Witness ==
    \E w \in AllWorkers :
        /\ op[w] = "download" /\ pc[w] = "done"
        /\ task[w].last_update = <<8, 999>>
        /\ task[w].dest \in DOMAIN files
        /\ files[task[w].dest] = [data |-> <<1>>, atime |-> 8, mtime |-> 8]

\* A grants entry that has no "=" or whose permission keyword is unknown.
Malformed(grant) ==
    \/ \A i \in DOMAIN grant : grant[i] # "="
    \/ \E i \in DOMAIN grant :
         /\ grant[i] = "="
         /\ \A j \in 1..(i - 1) : grant[j] # "="
         /\ SubSeq(grant, 1, i - 1) \notin {s_read, s_full, s_readacl, s_writeacl}

BadGrants(w) ==
    /\ "grants" \in DOMAIN task[w].parameters
    /\ \E i \in DOMAIN task[w].parameters.grants :
         Malformed(task[w].parameters.grants[i])

PipelineMethods == {"upload", "copy", "create_multipart_upload"}
AfterPipeline == {"upload_put", "upload_check", "copy_call", "cmu_call"}
PipelineCalls == {"PutObject", "CopyObject", "CreateMultipartUpload"}

\* upload() could not read its source (it fails before the pipeline).
UnreadableSource(w) ==
    /\ op[w] \in {"upload", "move"}
    /\ task[w].src \notin DOMAIN files
    /\ err[w] = "IOError"

\* C5: with a malformed grants entry, upload(), copy() and
\* create_multipart_upload() never get past the option pipeline: no remote
\* call is made and the method (once its source is read, for upload) ends
\* with the validation error; and the entry read=alice sets grant_read to
\* alice.
C5_GrantsValidated ==
    \A w \in AllWorkers :
        /\ BadGrants(w)
               => /\ pc[w] \notin AfterPipeline
                  /\ ~Attempted(w, PipelineCalls)
                  /\ op[w] \in PipelineMethods
                         => /\ pc[w] # "done"
                            /\ ~Attempted(w, RemoteNames)
                            /\ (pc[w] = "failed" /\ ~UnreadableSource(w))
                                   => err[w] = "ValueError"
        /\ (pc[w] \in AfterPipeline
              /\ task[w].parameters.grants = << s_read \o s_eq \o s_alice >>)
               => /\ "grant_read" \in DOMAIN loc[w].params
                  /\ loc[w].params.grant_read = s_alice

\* copy() stopped by an unknown permission keyword before any call.
C5_Witness ==
    \E w \in AllWorkers :
        /\ op[w] = "copy" /\ pc[w] = "failed" /\ err[w] = "ValueError"
        /\ bind[w].service
        /\ task[w].parameters.grants = << s_bob \o s_eq \o s_alice >>
        /\ calls[w] = <<>>

\* C6: after the option pipeline, the request's content type is the first
\* element of an explicit content_type whatever guess_mime_type says; with
\* no explicit one and guess_mime_type set it is the type guessed from the
\* source path, if there is one; otherwise the parameter is not set.
C6_ContentType ==
    \A w \in AllWorkers :
        pc[w] \in AfterPipeline =>
            LET P == task[w].parameters
                params == loc[w].params
            IN IF P.content_type # <<>>
               THEN /\ "content_type" \in DOMAIN params
                    /\ params.content_type = P.content_type[1]
               ELSE IF P.guess_mime_type /\ guess_content_type(task[w].src) # ""
               THEN /\ "content_type" \in DOMAIN params
                    /\ params.content_type = guess_content_type(task[w].src)
               ELSE "content_type" \notin DOMAIN params

\* Both a guessable source path with guess_mime_type set and an explicit
\* content_type: the explicit one is in the request.
C6_Witness ==
    \E w \in AllWorkers :
        /\ pc[w] = "upload_put"
        /\ task[w].parameters.guess_mime_type
        /\ guess_content_type(task[w].src) = "application/json"
        /\ task[w].parameters.content_type = <<"text/plain", "text/css">>
        /\ loc[w].params.content_type = "text/plain"

\* C7: a worker whose makedirs fails because another worker has created
\* the directory in the meantime does not fail on that: it goes on to the
\* write, which finds the directory, and a worker that has written holds
\* its own file with its own payload.
C7_MakedirsRaceTolerated ==
    \A w \in AllWorkers :
        /\ loc[w].mkdirs = "EEXIST"
               => /\ pc[w] \in {"sf_write", "sf_utime", "done", "failed"}
                  /\ pc[w] = "failed"
                         => err[w] = "IOError" /\ Logged(w, "write", "IOError")
                  /\ ~Logged(w, "write", "ENOENT")
        /\ pc[w] \in {"sf_utime", "done"}
               => /\ task[w].dest \in DOMAIN files
                  /\ files[task[w].dest].data = loc[w].data
                  /\ \A v \in AllWorkers \ {w} : task[v].dest # task[w].dest

\* Two workers found the directory missing; one created it, the other's
\* makedirs then failed on "already exists"; both finished their download.
C7_Witness ==
    \E w \in AllWorkers, v \in AllWorkers :
        /\ loc[w].mkdirs = "ok" /\ loc[v].mkdirs = "EEXIST"
        /\ pc[w] = "done" /\ pc[v] = "done"
        /\ task[w].dest \in DOMAIN files /\ task[v].dest \in DOMAIN files

\* C8: during download(), a failure to create the destination directory
\* for a reason other than "already exists" ends the task with that error,
\* and so does a failure to write the destination file.
C8_MakedirsFailurePropagates ==
    \A w \in AllWorkers :
        /\ loc[w].mkdirs = "OSError" => pc[w] = "failed" /\ err[w] = "OSError"
        /\ Logged(w, "write", "IOError") => pc[w] = "failed" /\ err[w] = "IOError"

\* w's method was called with no service bound.
Unbound(w) == op[w] # "" /\ ~bind[w].service

DefaultBag(w) == task[w].no_parameters

\* C10: on a task constructed without parameters, upload(), copy() and
\* create_multipart_upload() fail with the missing-key error inside the
\* option pipeline before any remote call (upload, once it has read its
\* source); move() from local or s3 to s3 fails without deleting the
\* source; download() and delete() never fail that way.
C10_DefaultBagKeyError ==
    \A w \in AllWorkers :
        DefaultBag(w) =>
            /\ pc[w] \notin AfterPipeline
            /\ ~Attempted(w, PipelineCalls)
            /\ op[w] \in PipelineMethods
                   => /\ pc[w] # "done"
                      /\ calls[w] = <<>>
                      /\ (pc[w] = "failed" /\ ~UnreadableSource(w))
                             => err[w] = "KeyError"
            /\ (op[w] = "move" /\ KindsOf(w) \in { <<"local", "s3">>, <<"s3", "s3">> })
                   => /\ pc[w] \notin {"delete", "done"}
                      /\ calls[w] = <<>>
                      /\ task[w].src # <<>> => SrcPresent(w)
                      /\ (pc[w] = "failed" /\ ~UnreadableSource(w))
                             => err[w] = "KeyError"
            /\ op[w] \in {"download", "delete"} => err[w] # "KeyError"

\* A bound move from a local file to the store on such a task: it failed
\* on the missing key, with the source file in place.
C10_Witness ==
    \E w \in AllWorkers :
        /\ DefaultBag(w) /\ bind[w].service
        /\ DOMAIN task[w].parameters = {"acl", "sse"}
        /\ op[w] = "move" /\ KindsOf(w) = <<"local", "s3">>
        /\ pc[w] = "failed" /\ err[w] = "KeyError"
        /\ calls[w] = <<>>
        /\ task[w].src \in DOMAIN files

====
